---- MODULE Spec2Model ----
(***************************************************************************)
(* Model of the character scraper (main.go and its older variant):         *)
(*   - the batch loop processCategory / processAllCharacters,              *)
(*   - extractCharacterInfoWithRetry and the fetch layer,                  *)
(*   - the row extractors of the ability table.                            *)
(*                                                                         *)
(* Texts are sequences of symbols.  A symbol is one character ("1", " ",   *)
(* "(") or one word of the rule tables, written in ASCII transliteration   *)
(* (the Japanese word is given in the comment next to it).                 *)
(***************************************************************************)
EXTENDS Integers, Sequences, FiniteSets, TLC

(***************************************************************************)
(* config (main.go 56-63).  Durations are in milliseconds.                 *)
(***************************************************************************)
MaxRetries == 3
BaseDelay == 2000
RequestDelay == 500

(***************************************************************************)
(* Bounds of the model.                                                    *)
(***************************************************************************)
MaxUrls == 3
MaxCells == 5
MaxTables == 3
MaxText == 5
MaxRows == 3

(***************************************************************************)
(* rules (main.go 65-81)                                                   *)
(***************************************************************************)
\* "goutan" 豪胆, "reisei" 冷静, "gohtan" 剛胆, "chinchaku" 沈着,
\* "chototsu" 猪突, "onwa" 温和, "okubyo" 臆病
PersonalityTypes ==
    { <<"goutan">>, <<"reisei">>, <<"gohtan">>, <<"chinchaku">>,
      <<"chototsu">>, <<"onwa">>, <<"okubyo">> }
\* "mukanshin" 無関心, "jushi" 重視, "bunbufumon" 文武不問, "bumei" 武名,
\* "komei" 高名
FameTypes ==
    { <<"mukanshin">>, <<"jushi">>, <<"bunbufumon">>, <<"bumei">>, <<"komei">> }
\* "kosen" 好戦, "futsu" 普通, "sekkyoku" 積極, "shokyoku" 消極, "shiyoku" 私欲
StrategyTypes ==
    { <<"kosen">>, <<"futsu">>, <<"sekkyoku">>, <<"shokyoku">>, <<"shiyoku">> }
\* "429", "Too Many Requests"
RetryErrors == { <<"4", "2", "9">>, <<"Too Many Requests">> }
\* 統率 "tosotsu", 武力 "buryoku"
AbilityHeaders == { <<"tosotsu">>, <<"buryoku">> }
\* 重視名声 = 重視 + 名声 ("jushi" "meisei"), 物欲 "butsuyoku",
\* 戦略傾向 "senryakukeiko"
StatusHeaders == { <<"jushi", "meisei">>, <<"butsuyoku">>, <<"senryakukeiko">> }
\* 字 "azana", 没年 "botsunen"
BasicInfoHeaders == { <<"azana">>, <<"botsunen">> }
\* 奇才 "kisai"; isTalentTable also asks for 効果 "koka"
TalentHeaders == { <<"kisai">> }
\* 戦法 "senpo", 特技 "tokugi"
TacticsHeaders == { <<"senpo">> }
SkillsHeaders == { <<"tokugi">> }
\* 歩兵 "hohei", 騎兵 "kihei", 弓兵 "kyuhei", 艦船 "kansen", 軍略 "gunryaku",
\* 補助 "hojo", 遁甲 "tonko"
TacticCategories ==
    { <<"hohei">>, <<"kihei">>, <<"kyuhei">>, <<"kansen">>, <<"gunryaku">>,
      <<"hojo">>, <<"tonko">> }
\* 任務 "ninmu", 智謀 "chibo", 兵科 "heika", 軍事 "gunji"
SkillCategories == { <<"ninmu">>, <<"chibo">>, <<"heika">>, <<"gunji">> }
\* 武具 "bugu", 書物 "shomotsu", 宝物 "homotsu", 茶器 "chaki", 名馬 "meiba",
\* 美術 "bijutsu", 酒 "sake", 音楽 "ongaku", 詩歌 "shiika", 絵画 "kaiga",
\* 香 "ko", 薬草 "yakuso"
InterestItems ==
    { <<"bugu">>, <<"shomotsu">>, <<"homotsu">>, <<"chaki">>, <<"meiba">>,
      <<"bijutsu">>, <<"sake">>, <<"ongaku">>, <<"shiika">>, <<"kaiga">>,
      <<"ko">>, <<"yakuso">> }
InterestWidths == { "60px", "53px", "52px", "51px", "50px" }
\* the katakana long-vowel mark "ー" (U+30FC)
Choon == "choon"
\* "ー", "", 興味 "kyomi", "-"
ExcludeTexts == { <<Choon>>, <<>>, <<"kyomi">>, <<"-">> }

(***************************************************************************)
(* Strings                                                                 *)
(***************************************************************************)
Space == { " ", "\t", "\n" }
Digits == { "0", "1", "2", "3", "4", "5", "6", "7", "8", "9" }

DigitVal(c) ==
    CASE c = "0" -> 0 [] c = "1" -> 1 [] c = "2" -> 2 [] c = "3" -> 3
      [] c = "4" -> 4 [] c = "5" -> 5 [] c = "6" -> 6 [] c = "7" -> 7
      [] c = "8" -> 8 [] c = "9" -> 9

RECURSIVE TrimLeft(_)
TrimLeft(s) ==
    IF s # <<>> /\ Head(s) \in Space THEN TrimLeft(Tail(s)) ELSE s

RECURSIVE TrimRight(_)
TrimRight(s) ==
    IF s # <<>> /\ s[Len(s)] \in Space
    THEN TrimRight(SubSeq(s, 1, Len(s) - 1))
    ELSE s

\* strings.TrimSpace
TrimSpace(s) == TrimRight(TrimLeft(s))

\* strings.Contains(text, sub)
StringsContains(text, sub) ==
    \E k \in 0 .. (Len(text) - Len(sub)) :
        SubSeq(text, k + 1, k + Len(sub)) = sub

\* strconv.Atoi: an optional sign, then one or more decimal digits.  Values
\* outside the int range are an error; the model refuses more than 9 digits.
AtoiDigits(s) ==
    IF s # <<>> /\ Head(s) \in { "+", "-" } THEN Tail(s) ELSE s

AtoiOk(s) ==
    LET d == AtoiDigits(s)
    IN  /\ d # <<>>
        /\ Len(d) <= 9
        /\ \A k \in 1 .. Len(d) : d[k] \in Digits

RECURSIVE DigitsVal(_)
DigitsVal(d) ==
    IF d = <<>> THEN 0
    ELSE 10 * DigitsVal(SubSeq(d, 1, Len(d) - 1)) + DigitVal(d[Len(d)])

AtoiVal(s) ==
    IF s # <<>> /\ Head(s) = "-" THEN 0 - DigitsVal(AtoiDigits(s))
    ELSE DigitsVal(AtoiDigits(s))

(***************************************************************************)
(* HTML nodes.  An element below a row is [tag, text, style]: its tag      *)
(* ("td" or "th"), its getNodeText and its style attribute.  A row is the  *)
(* sequence of these elements in document order; a table is a sequence of  *)
(* rows.                                                                   *)
(***************************************************************************)
NoStyle == <<>>

Td(t) == [tag |-> "td", text |-> t, style |-> NoStyle]
Th(t) == [tag |-> "th", text |-> t, style |-> NoStyle]

\* getNodeText of one element
getNodeText(node) == node.text

\* getNodeText of a row: the texts of its elements, concatenated
RECURSIVE rowText(_)
rowText(row) ==
    IF row = <<>> THEN <<>>
    ELSE getNodeText(Head(row)) \o rowText(Tail(row))

\* findAllNodes(row, "td")
IsTd(node) == node.tag = "td"
findAllCells(row) == SelectSeq(row, IsTd)

\* containsAnyTexts(row, texts)
containsAnyTexts(row, texts) ==
    \E t \in texts : StringsContains(rowText(row), t)

\* the trimmed text of cell k (1-based) of a row's cells
cellText(cells, k) == TrimSpace(getNodeText(cells[k]))

(***************************************************************************)
(* Character (main.go 108-128)                                             *)
(***************************************************************************)
ZeroCharacter ==
    [ Name |-> <<>>, Reading |-> <<>>, Azana |-> <<>>,
      Leadership |-> 0, Force |-> 0, Intelligence |-> 0, Politics |-> 0,
      Charm |-> 0, Talent |-> <<>>, Interest |-> <<>>, Greed |-> <<>>,
      Loyalty |-> 0, Personality |-> <<>>, Strategy |-> <<>>,
      DeathYear |-> 0, DeathMinus13 |-> 0, Tactics |-> <<>>, Skills |-> <<>>,
      Fame |-> <<>> ]

(***************************************************************************)
(* Row extractors (main.go 485-593).  Indices are 1-based here: cells[k]   *)
(* is the code's cells[k-1].                                               *)
(***************************************************************************)
\* the local array abilities of extractAbilities: the values parsed before
\* the first cell that is no number, 0 in the other places
abilitiesOf(cells) ==
    [ i \in 1 .. 5 |->
        IF \A k \in 1 .. i : AtoiOk(cellText(cells, k))
        THEN AtoiVal(cellText(cells, i))
        ELSE 0 ]

allNumbers(cells) == \A i \in 1 .. 5 : AtoiOk(cellText(cells, i))

\* a slip: each field is written as soon as its cell has parsed
extractAbilitiesEager(character, cells) ==
    IF Len(cells) < 5 THEN character
    ELSE LET abilities == abilitiesOf(cells)
             n == Cardinality({ i \in 1 .. 5 :
                                  \A k \in 1 .. i : AtoiOk(cellText(cells, k)) })
         IN  [ character EXCEPT
                 !.Leadership = IF n >= 1 THEN abilities[1] ELSE @,
                 !.Force = IF n >= 2 THEN abilities[2] ELSE @,
                 !.Intelligence = IF n >= 3 THEN abilities[3] ELSE @,
                 !.Politics = IF n >= 4 THEN abilities[4] ELSE @,
                 !.Charm = IF n >= 5 THEN abilities[5] ELSE @ ]

\* a slip: the guard on the first value is >= 0 instead of > 0
extractAbilitiesNonNegative(character, cells) ==
    IF Len(cells) < 5 THEN character
    ELSE LET abilities == abilitiesOf(cells)
         IN  IF allNumbers(cells) /\ abilities[1] >= 0
             THEN [ character EXCEPT
                      !.Leadership = abilities[1], !.Force = abilities[2],
                      !.Intelligence = abilities[3], !.Politics = abilities[4],
                      !.Charm = abilities[5] ]
             ELSE character

extractAbilities(character, cells) ==
    IF Len(cells) < 5 THEN character
    ELSE LET abilities == abilitiesOf(cells)
         IN  IF allNumbers(cells) /\ abilities[1] > 0
             THEN [ character EXCEPT
                      !.Leadership = abilities[1], !.Force = abilities[2],
                      !.Intelligence = abilities[3], !.Politics = abilities[4],
                      !.Charm = abilities[5] ]
             ELSE character

\* the smallest member of a non-empty set of indices
MinOf(S) == CHOOSE j \in S : \A k \in S : j <= k

\* a slip: the cell's text is stored without trimming
extractPersonalityAndLoyaltyRaw(character, cells) ==
    IF Len(cells) < 2 THEN character
    ELSE LET found == { j \in 1 .. Len(cells) :
                          cellText(cells, j) \in PersonalityTypes }
         IN  IF found = {} THEN character
             ELSE LET j == MinOf(found)
                      nums == { k \in (j + 1) .. Len(cells) :
                                  AtoiOk(cellText(cells, k)) }
                      c1 == [ character EXCEPT
                                !.Personality = getNodeText(cells[j]) ]
                  IN  IF nums = {} THEN c1
                      ELSE [ c1 EXCEPT
                               !.Loyalty = AtoiVal(cellText(cells, MinOf(nums))) ]

extractPersonalityAndLoyalty(character, cells) ==
    IF Len(cells) < 2 THEN character
    ELSE LET found == { j \in 1 .. Len(cells) :
                          cellText(cells, j) \in PersonalityTypes }
         IN  IF found = {} THEN character
             ELSE LET j == MinOf(found)
                      nums == { k \in (j + 1) .. Len(cells) :
                                  AtoiOk(cellText(cells, k)) }
                      c1 == [ character EXCEPT !.Personality = cellText(cells, j) ]
                  IN  IF nums = {} THEN c1
                      ELSE [ c1 EXCEPT
                               !.Loyalty = AtoiVal(cellText(cells, MinOf(nums))) ]

\* a slip: only the empty text is left out
extractGreedEmptyOnly(character, cells, startIndex) ==
    IF startIndex + 1 > Len(cells) THEN character
    ELSE LET greedText == cellText(cells, startIndex + 1)
         IN  IF greedText # <<>>
             THEN [ character EXCEPT !.Greed = greedText ]
             ELSE character

\* startIndex is the 1-based index of the fame cell
extractGreed(character, cells, startIndex) ==
    IF startIndex + 1 > Len(cells) THEN character
    ELSE LET greedText == cellText(cells, startIndex + 1)
         IN  IF greedText # <<>> /\ greedText # <<"-">> /\ greedText # <<Choon>>
             THEN [ character EXCEPT !.Greed = greedText ]
             ELSE character

\* the for loop of extractStrategy, from cell k on
RECURSIVE strategyLoop(_, _, _, _)
strategyLoop(character, cells, startIndex, k) ==
    IF ~(k <= Len(cells) /\ k < startIndex + 4) THEN character
    ELSE LET strategyText == cellText(cells, k)
         IN  IF strategyText = <<>> \/ strategyText = <<Choon>>
             THEN strategyLoop(character, cells, startIndex, k + 1)
             ELSE IF strategyText \in StrategyTypes
             THEN [ character EXCEPT !.Strategy = strategyText ]
             ELSE IF strategyText = <<"-">>
             THEN [ character EXCEPT !.Strategy = <<"-">> ]
             ELSE strategyLoop(character, cells, startIndex, k + 1)

\* a slip: the loop runs to the end of the row
RECURSIVE strategyLoopToRowEnd(_, _, _)
strategyLoopToRowEnd(character, cells, k) ==
    IF k > Len(cells) THEN character
    ELSE LET strategyText == cellText(cells, k)
         IN  IF strategyText \in StrategyTypes \cup { <<"-">> }
             THEN [ character EXCEPT !.Strategy = strategyText ]
             ELSE strategyLoopToRowEnd(character, cells, k + 1)

extractStrategyToRowEnd(character, cells, startIndex) ==
    strategyLoopToRowEnd(character, cells, startIndex + 2)

extractStrategy(character, cells, startIndex) ==
    strategyLoop(character, cells, startIndex, startIndex + 2)

extractStatusInfo(character, row, cells) ==
    IF containsAnyTexts(row, StatusHeaders) THEN character
    ELSE IF Len(cells) < 3 THEN character
    ELSE LET found == { j \in 1 .. Len(cells) : cellText(cells, j) \in FameTypes }
         IN  IF found = {} THEN character
             ELSE LET j == MinOf(found)
                      c1 == [ character EXCEPT !.Fame = cellText(cells, j) ]
                  IN  extractStrategy(extractGreed(c1, cells, j), cells, j)

processTableRow(character, row, cells) ==
    extractStatusInfo(
        extractPersonalityAndLoyalty(extractAbilities(character, cells), cells),
        row, cells)

\* extractAbilitiesFromTable: every row of the table, in document order
RECURSIVE extractAbilitiesFromTable(_, _)
extractAbilitiesFromTable(character, table) ==
    IF table = <<>> THEN character
    ELSE extractAbilitiesFromTable(
             processTableRow(character, Head(table), findAllCells(Head(table))),
             Tail(table))

(***************************************************************************)
(* Documents.  A document is [strong, tables]: the text of its first       *)
(* strong element (NoNode when it has none) and its tables in document     *)
(* order.                                                                  *)
(***************************************************************************)
NoNode == << "nil" >>

\* a nil *html.Node where a document is expected
NoDoc == [ strong |-> NoNode, tables |-> <<>> ]

\* getNodeText of a table
RECURSIVE tableText(_)
tableText(table) ==
    IF table = <<>> THEN <<>>
    ELSE rowText(Head(table)) \o tableText(Tail(table))

\* containsAllTexts(table, texts), containsAnyTexts(table, texts)
tableContainsAll(table, texts) ==
    \A t \in texts : StringsContains(tableText(table), t)
tableContainsAny(table, texts) ==
    \E t \in texts : StringsContains(tableText(table), t)

\* hasStyle(n, style): the style attribute holds the token sequence
hasStyle(node, style) == StringsContains(node.style, style)
hasStyleWidth(node, width) == StringsContains(node.style, <<"width:", width>>)
hasAnyStyleWidth(node, widths) == \E w \in widths : hasStyleWidth(node, w)

\* all td cells of a table, in document order
RECURSIVE tableCells(_)
tableCells(table) ==
    IF table = <<>> THEN <<>>
    ELSE findAllCells(Head(table)) \o tableCells(Tail(table))

\* all td cells of a document
RECURSIVE allCells(_)
allCells(tables) ==
    IF tables = <<>> THEN <<>>
    ELSE tableCells(Head(tables)) \o allCells(Tail(tables))

\* strings.Cut(text, sep) for a one-symbol separator: <<before, after, found>>
stringsCut(text, sep) ==
    LET at == { k \in 1 .. Len(text) : text[k] = sep }
    IN  IF at = {} THEN <<text, <<>>, FALSE>>
        ELSE LET k == CHOOSE j \in at : \A m \in at : j <= m
             IN  <<SubSeq(text, 1, k - 1), SubSeq(text, k + 1, Len(text)), TRUE>>

\* strings.Join(items, ", ")
RECURSIVE stringsJoin(_)
stringsJoin(items) ==
    IF items = <<>> THEN <<>>
    ELSE IF Len(items) = 1 THEN Head(items)
    ELSE Head(items) \o <<",", " ">> \o stringsJoin(Tail(items))

\* a slip: the found flag of the second cut is not looked at
extractNameAndReadingOpenOnly(character, doc) ==
    IF doc.strong = NoNode THEN character
    ELSE LET c1 == stringsCut(doc.strong, "(")
         IN  IF ~c1[3] THEN character
             ELSE [ character EXCEPT
                      !.Name = TrimSpace(c1[1]),
                      !.Reading = TrimSpace(stringsCut(c1[2], ")")[1]) ]

extractNameAndReading(character, doc) ==
    IF doc.strong = NoNode THEN character
    ELSE LET c1 == stringsCut(doc.strong, "(")
         IN  IF ~c1[3] THEN character
             ELSE LET c2 == stringsCut(c1[2], ")")
                  IN  IF ~c2[3] THEN character
                      ELSE [ character EXCEPT !.Name = TrimSpace(c1[1]),
                                              !.Reading = TrimSpace(c2[1]) ]

\* strings.Split(text, sep) for a one-symbol separator
RECURSIVE stringsSplit(_, _)
stringsSplit(text, sep) ==
    LET c == stringsCut(text, sep)
    IN  IF ~c[3] THEN <<text>> ELSE <<c[1]>> \o stringsSplit(c[2], sep)

\* extractNameAndReading of the older variant (part_000 282-301)
extractNameAndReadingSplit(character, doc) ==
    IF doc.strong = NoNode THEN character
    ELSE IF ~StringsContains(doc.strong, <<"(">>)
            \/ ~StringsContains(doc.strong, <<")">>)
    THEN character
    ELSE LET parts == stringsSplit(doc.strong, "(")
         IN  IF Len(parts) < 2 THEN character
             ELSE [ character EXCEPT
                      !.Name = TrimSpace(parts[1]),
                      !.Reading = TrimSpace(stringsSplit(parts[2], ")")[1]) ]

\* a slip: the row loop has no break
RECURSIVE extractBasicInfoFromTableAllRows(_, _)
extractBasicInfoFromTableAllRows(character, table) ==
    IF table = <<>> THEN character
    ELSE LET cells == findAllCells(Head(table))
             c1 == [ character EXCEPT !.Azana = cellText(cells, 2) ]
             c2 == IF Len(cells) < 9 THEN character
                   ELSE IF AtoiOk(cellText(cells, 7))
                   THEN [ c1 EXCEPT
                            !.DeathYear = AtoiVal(cellText(cells, 7)),
                            !.DeathMinus13 = AtoiVal(cellText(cells, 7)) - 13 ]
                   ELSE c1
         IN  extractBasicInfoFromTableAllRows(c2, Tail(table))

\* the rows of extractBasicInfoFromTable, from the first one on
RECURSIVE extractBasicInfoFromTable(_, _)
extractBasicInfoFromTable(character, table) ==
    IF table = <<>> THEN character
    ELSE LET cells == findAllCells(Head(table))
         IN  IF Len(cells) < 9
             THEN extractBasicInfoFromTable(character, Tail(table))
             ELSE LET c1 == [ character EXCEPT !.Azana = cellText(cells, 2) ]
                  IN  IF AtoiOk(cellText(cells, 7))
                      THEN [ c1 EXCEPT
                               !.DeathYear = AtoiVal(cellText(cells, 7)),
                               !.DeathMinus13 = AtoiVal(cellText(cells, 7)) - 13 ]
                      ELSE c1

isTalentTable(table) ==
    /\ StringsContains(tableText(table), <<"kisai">>)
    /\ StringsContains(tableText(table), <<"koka">>)

extractTalentFromTable(character, table) ==
    IF ~isTalentTable(table) THEN character
    ELSE LET cells == tableCells(table)
             gold == { k \in 1 .. Len(cells) :
                         hasStyle(cells[k], <<"background-color:", "gold">>) }
         IN  IF gold = {} THEN character
             ELSE [ character EXCEPT !.Talent = cellText(cells, MinOf(gold)) ]

\* the first loop of extractFromTables
RECURSIVE classifiedTables(_, _)
classifiedTables(character, tables) ==
    IF tables = <<>> THEN character
    ELSE LET table == Head(tables)
             c1 == IF tableContainsAll(table, BasicInfoHeaders)
                   THEN extractBasicInfoFromTable(character, table)
                   ELSE IF tableContainsAll(table, AbilityHeaders)
                   THEN extractTalentFromTable(
                            extractAbilitiesFromTable(character, table), table)
                   ELSE IF tableContainsAny(table, TalentHeaders)
                   THEN extractTalentFromTable(character, table)
                   ELSE character
         IN  classifiedTables(c1, Tail(tables))

\* a slip: the fallback loop has no break
RECURSIVE talentFallbackNoBreak(_, _)
talentFallbackNoBreak(character, tables) ==
    IF tables = <<>> THEN character
    ELSE talentFallbackNoBreak(
             extractTalentFromTable(character, Head(tables)), Tail(tables))

\* the fallback loop of extractFromTables
RECURSIVE talentFallback(_, _)
talentFallback(character, tables) ==
    IF tables = <<>> THEN character
    ELSE LET c1 == extractTalentFromTable(character, Head(tables))
         IN  IF c1.Talent # <<>> THEN c1
             ELSE talentFallback(c1, Tail(tables))

extractFromTables(character, doc) ==
    LET c1 == classifiedTables(character, doc.tables)
    IN  IF c1.Talent = <<>> THEN talentFallback(c1, doc.tables) ELSE c1

isInterestCell(text) == text \in InterestItems

\* the kept texts of extractInterests, over the cells from the first one on
RECURSIVE interestsOf(_)
interestsOf(cells) ==
    IF cells = <<>> THEN <<>>
    ELSE LET text == TrimSpace(getNodeText(Head(cells)))
         IN  IF ~hasAnyStyleWidth(Head(cells), InterestWidths)
             THEN interestsOf(Tail(cells))
             ELSE IF text \in ExcludeTexts \/ ~isInterestCell(text)
             THEN interestsOf(Tail(cells))
             ELSE <<text>> \o interestsOf(Tail(cells))

\* a slip: the width of the cell is not looked at
RECURSIVE interestsOfAnyWidth(_)
interestsOfAnyWidth(cells) ==
    IF cells = <<>> THEN <<>>
    ELSE LET text == TrimSpace(getNodeText(Head(cells)))
         IN  IF text \in ExcludeTexts \/ ~isInterestCell(text)
             THEN interestsOfAnyWidth(Tail(cells))
             ELSE <<text>> \o interestsOfAnyWidth(Tail(cells))

extractInterestsAnyWidth(character, doc) ==
    [ character EXCEPT
        !.Interest = stringsJoin(interestsOfAnyWidth(allCells(doc.tables))) ]

extractInterests(character, doc) ==
    [ character EXCEPT !.Interest = stringsJoin(interestsOf(allCells(doc.tables))) ]

cleanTacticSkillText(text) == TrimSpace(stringsCut(text, "(")[1])

\* extractFromSkillTable over the cells of one table
RECURSIVE skillItems(_, _)
skillItems(cells, categories) ==
    IF cells = <<>> THEN <<>>
    ELSE LET text == cleanTacticSkillText(TrimSpace(getNodeText(Head(cells))))
         IN  IF ~hasStyleWidth(Head(cells), "70px")
             THEN skillItems(Tail(cells), categories)
             ELSE IF text # <<>> /\ text \notin categories
             THEN <<text>> \o skillItems(Tail(cells), categories)
             ELSE skillItems(Tail(cells), categories)

extractFromSkillTable(table, categories) ==
    skillItems(tableCells(table), categories)

\* the loop of extractTacticsAndSkills: acc is <<tactics, skills>>
RECURSIVE tacticsAndSkillsLoop(_, _)
tacticsAndSkillsLoop(acc, tables) ==
    IF tables = <<>> THEN acc
    ELSE LET table == Head(tables)
             a1 == IF tableContainsAny(table, TacticsHeaders)
                   THEN <<extractFromSkillTable(table, TacticCategories), acc[2]>>
                   ELSE IF tableContainsAny(table, SkillsHeaders)
                   THEN <<acc[1], extractFromSkillTable(table, SkillCategories)>>
                   ELSE acc
         IN  tacticsAndSkillsLoop(a1, Tail(tables))

extractTacticsAndSkills(doc) ==
    LET r == tacticsAndSkillsLoop(<< <<>>, <<>> >>, doc.tables)
    IN  <<stringsJoin(r[1]), stringsJoin(r[2])>>

extractBasicInfo(doc) ==
    extractInterests(
        extractFromTables(extractNameAndReading(ZeroCharacter, doc), doc), doc)

(***************************************************************************)
(* Errors.  An error is its message, a text; nil is NoError.               *)
(***************************************************************************)
NoError == <<>>

\* fmt's %d of a natural number
RECURSIVE Itoa(_)
Itoa(n) ==
    LET d == CHOOSE c \in Digits : DigitVal(c) = n % 10
    IN  IF n < 10 THEN <<d>> ELSE Itoa(n \div 10) \o <<d>>

\* containsAnyString(text, substrings)
containsAnyString(text, substrings) ==
    \E sub \in substrings : StringsContains(text, sub)

\* 最大リトライ回数に達しました ("the maximum number of retries was reached")
MaxRetriesError == <<"max retries reached">>

(***************************************************************************)
(* The fetch layer (main.go 351-392).  What one GET can end in is an       *)
(* input: the stage it fails at ("request", "transport") or "response",    *)
(* with the response and what reading and parsing the body gives.          *)
(***************************************************************************)
Response(code, reason) ==
    [ StatusCode |-> code, Status |-> Itoa(code) \o <<" ">> \o reason ]

checkHTTPStatus(resp) ==
    IF resp.StatusCode = 429 THEN <<"4", "2", "9", " ", "Too Many Requests">>
    ELSE IF resp.StatusCode # 200
    THEN <<"HTTP error", ":", " ">> \o Itoa(resp.StatusCode) \o <<" ">> \o resp.Status
    ELSE NoError

\* fetchAndParseHTML: [doc, err]
fetchAndParseHTML(o) ==
    IF o.stage = "request"
    THEN [ doc |-> NoDoc, err |-> <<"request error", ":", " ">> \o o.detail ]
    ELSE IF o.stage = "transport"
    THEN [ doc |-> NoDoc, err |-> <<"HTTP request error", ":", " ">> \o o.detail ]
    ELSE IF checkHTTPStatus(o.resp) # NoError
    THEN [ doc |-> NoDoc, err |-> checkHTTPStatus(o.resp) ]
    ELSE IF o.body = "unreadable"
    THEN [ doc |-> NoDoc, err |-> <<"response read error", ":", " ">> \o o.detail ]
    ELSE IF o.body = "unparsable"
    THEN [ doc |-> NoDoc, err |-> <<"HTML parse error", ":", " ">> \o o.detail ]
    ELSE [ doc |-> o.doc, err |-> NoError ]

\* a slip: the record is filled before the error is looked at
extractCharacterInfoPartial(o) ==
    LET r == fetchAndParseHTML(o)
    IN  IF r.err # NoError
        THEN [ character |-> [ ZeroCharacter EXCEPT !.Name = <<"?">> ],
               err |-> r.err ]
        ELSE LET ts == extractTacticsAndSkills(r.doc)
             IN  [ character |-> [ extractBasicInfo(r.doc) EXCEPT
                                     !.Tactics = ts[1], !.Skills = ts[2] ],
                   err |-> NoError ]

\* extractCharacterInfo: [character, err]
extractCharacterInfo(o) ==
    LET r == fetchAndParseHTML(o)
    IN  IF r.err # NoError THEN [ character |-> ZeroCharacter, err |-> r.err ]
        ELSE LET ts == extractTacticsAndSkills(r.doc)
             IN  [ character |-> [ extractBasicInfo(r.doc) EXCEPT
                                     !.Tactics = ts[1], !.Skills = ts[2] ],
                   err |-> NoError ]

\* a slip: the bound on the attempt is maxRetries instead of maxRetries-1
shouldRetryOffByOne(err, attempt, maxRetries) ==
    containsAnyString(err, RetryErrors) /\ attempt < maxRetries

\* a slip: every error is retried
shouldRetryAnyError(err, attempt, maxRetries) ==
    attempt < maxRetries - 1

\* a slip: the attempt number is not looked at
shouldRetryIgnoresAttempt(err, attempt, maxRetries) ==
    containsAnyString(err, RetryErrors)

shouldRetry(err, attempt, maxRetries) ==
    containsAnyString(err, RetryErrors) /\ attempt < maxRetries - 1

\* a slip: the delay is baseDelay * attempt
retryDelayFromZero(attempt) == BaseDelay * attempt

\* delay := config.BaseDelay * time.Duration(attempt+1)
retryDelay(attempt) == BaseDelay * (attempt + 1)

\* a slip: only the message of the retry loop's last line is recognised
isRateLimitErrorExhaustedOnly(err) == StringsContains(err, MaxRetriesError)

\* a slip: every error counts as a rate limit
isRateLimitErrorAlways(err) == TRUE

isRateLimitError(err) ==
    containsAnyString(err, RetryErrors) \/ StringsContains(err, MaxRetriesError)

\* a slip: the delay is taken after the last item too
sleepBetweenRequestsAlways(currentIndex, totalCount) ==
    IF currentIndex < totalCount THEN << [ op |-> "delay", item |-> currentIndex,
                                           d |-> RequestDelay ] >>
    ELSE <<>>

\* sleepBetweenRequests: the time.Sleep calls it makes
sleepBetweenRequests(currentIndex, totalCount) ==
    IF currentIndex < totalCount - 1
    THEN << [ op |-> "delay", item |-> currentIndex, d |-> RequestDelay ] >>
    ELSE <<>>

(***************************************************************************)
(* Inputs of the batch: the pages the wiki can answer with and the ways    *)
(* one GET can end.                                                        *)
(***************************************************************************)
\* a page with an ability table: a header row and one data row
DocAbility ==
    [ strong |-> <<"S", "o", "(", "s", "o", ")">>,
      tables |-> << << << Th(<<"tosotsu">>), Th(<<"buryoku">>) >>,
                       << Td(<<"1", "2", "0">>), Td(<<"9", "5">>),
                          Td(<<"6", "0">>), Td(<<"7", "0">>), Td(<<"8", "0">>),
                          Td(<<"reisei">>), Td(<<"7">>) >> >> >> ]

\* a page with a name and no table
DocNameOnly == [ strong |-> <<"R", "y", "(", "r", ")">>, tables |-> <<>> ]

Docs == { DocAbility, DocNameOnly }

Responses ==
    { Response(200, <<"OK">>),
      Response(429, <<"Too Many Requests">>),
      Response(404, <<"Not Found">>),
      Response(500, <<"Internal Server Error">>),
      Response(503, <<"Too Many Requests">>) }

NoResponse == [ StatusCode |-> 0, Status |-> <<>> ]

FetchOutcomes ==
    { [ stage |-> "request", detail |-> <<"invalid URL">>, resp |-> NoResponse,
        body |-> "none", doc |-> NoDoc ] }
    \cup
    { [ stage |-> "transport", detail |-> d, resp |-> NoResponse,
        body |-> "none", doc |-> NoDoc ] :
        d \in { <<"timeout">>, <<"Get", " ", "u", "4", "2", "9", ":", " ", "timeout">> } }
    \cup
    { [ stage |-> "response", detail |-> <<>>, resp |-> r,
        body |-> "none", doc |-> NoDoc ] :
        r \in { x \in Responses : x.StatusCode # 200 } }
    \cup
    { [ stage |-> "response", detail |-> <<"unexpected EOF">>,
        resp |-> Response(200, <<"OK">>), body |-> b, doc |-> NoDoc ] :
        b \in { "unreadable", "unparsable" } }
    \cup
    { [ stage |-> "response", detail |-> <<>>, resp |-> Response(200, <<"OK">>),
        body |-> "parsed", doc |-> d ] : d \in Docs }

NoOutcome ==
    [ stage |-> "none", detail |-> <<>>, resp |-> NoResponse, body |-> "none",
      doc |-> NoDoc ]

(***************************************************************************)
(* State                                                                   *)
(***************************************************************************)
VARIABLES
    urls,        \* the input list of processCategory
    i,           \* the loop index of processCategory (0-based)
    pc,          \* where the batch is: "loop", "retry", "sleep", "returned",
                 \* "done", "fatal"; "row" while a table row is extracted;
                 \* "doc" while a document is read, "parsed" after it
                 \* ("parsedSplit" after the older variant)
    attempt,     \* the loop variable of extractCharacterInfoWithRetry
    character,   \* the record returned by the retry loop / being filled
    err,         \* the error returned by the retry loop
    characters,  \* the result slice of processCategory
    io,          \* the GETs and time.Sleep calls made for the current item
    batchLog,    \* per item, how it ended and the inter-request sleeps
    row,         \* the elements of the table row at hand, or the text
                 \* nodes of the document's first strong element
    tables       \* the tables of the document at hand, in document order

vars == << urls, i, pc, attempt, character, err, characters, io, batchLog,
           row, tables >>

Fetch(o) == [ op |-> "fetch", o |-> o, d |-> 0 ]
Sleep(d) == [ op |-> "sleep", o |-> NoOutcome, d |-> d ]
Ended(res, item) == [ op |-> res, item |-> item, d |-> 0 ]

Init ==
    /\ urls \in { [ k \in 1 .. n |-> k ] : n \in 0 .. MaxUrls }
    /\ i = 0
    /\ pc = "loop"
    /\ attempt = 0
    /\ character = ZeroCharacter
    /\ err = NoError
    /\ characters = <<>>
    /\ io = <<>>
    /\ batchLog = <<>>
    /\ row = <<>>
    /\ tables = <<>>

(***************************************************************************)
(* processCategory (main.go 179-200) and extractCharacterInfoWithRetry     *)
(* (main.go 313-331)                                                       *)
(***************************************************************************)
\* the loop takes the next url and calls extractCharacterInfoWithRetry
StartItem ==
    /\ pc = "loop"
    /\ i < Len(urls)
    /\ pc' = "retry"
    /\ attempt' = 0
    /\ io' = <<>>
    /\ character' = ZeroCharacter
    /\ err' = NoError
    /\ UNCHANGED << tables, urls, i, characters, batchLog, row >>

\* one pass of the retry loop up to its return or its time.Sleep
Attempt ==
    /\ pc = "retry"
    /\ IF attempt < MaxRetries
       THEN \E o \in FetchOutcomes :
              LET r == extractCharacterInfo(o)
              IN  /\ io' = Append(io, Fetch(o))
                  /\ character' = r.character
                  /\ err' = r.err
                  /\ pc' = IF r.err # NoError /\ shouldRetry(r.err, attempt, MaxRetries)
                           THEN "sleep"
                           ELSE "returned"
       ELSE /\ character' = ZeroCharacter
            /\ err' = MaxRetriesError
            /\ pc' = "returned"
            /\ io' = io
    /\ UNCHANGED << tables, urls, i, attempt, characters, batchLog, row >>

\* time.Sleep(delay); continue
Backoff ==
    /\ pc = "sleep"
    /\ io' = Append(io, Sleep(retryDelay(attempt)))
    /\ attempt' = attempt + 1
    /\ pc' = "retry"
    /\ UNCHANGED << tables, urls, i, character, err, characters, batchLog,
                    row >>

\* err == nil: append the record, sleepBetweenRequests, next item
AppendCharacter ==
    /\ pc = "returned"
    /\ err = NoError
    /\ characters' = Append(characters, character)
    /\ batchLog' = Append(batchLog, Ended("ok", i)) \o
                     sleepBetweenRequests(i, Len(urls))
    /\ i' = i + 1
    /\ pc' = "loop"
    /\ UNCHANGED << tables, urls, attempt, character, err, io, row >>

\* err != nil: handleProcessingError, then continue (unless log.Fatalf)
HandleProcessingError ==
    /\ pc = "returned"
    /\ err # NoError
    /\ IF isRateLimitError(err)
       THEN /\ batchLog' = Append(batchLog, Ended("fatal", i))
            /\ pc' = "fatal"
            /\ i' = i
       ELSE /\ batchLog' = Append(batchLog, Ended("skipped", i))
            /\ pc' = "loop"
            /\ i' = i + 1
    /\ UNCHANGED << tables, urls, attempt, character, err, characters, io,
                    row >>

\* the range loop is over: return characters
Finish ==
    /\ pc = "loop"
    /\ i = Len(urls)
    /\ pc' = "done"
    /\ UNCHANGED << tables, urls, i, attempt, character, err, characters,
                    io, batchLog, row >>

Next ==
    \/ StartItem
    \/ Attempt
    \/ Backoff
    \/ AppendCharacter
    \/ HandleProcessingError
    \/ Finish

Spec == Init /\ [][Next]_vars

(***************************************************************************)
(* Properties of the retry loop and the batch loop                         *)
(***************************************************************************)
IsFetch(e) == e.op = "fetch"
IsSleep(e) == e.op = "sleep"
IsDelay(e) == e.op = "delay"
IsOk(e) == e.op = "ok"
IsItem(e) == e.op \in { "ok", "skipped", "fatal" }

Fetches(s) == SelectSeq(s, IsFetch)
Sleeps(s) == SelectSeq(s, IsSleep)

IsPrefix(s, t) == Len(s) <= Len(t) /\ s = SubSeq(t, 1, Len(s))

\* the GET was answered with HTTP 429
Is429(o) == o.stage = "response" /\ o.resp.StatusCode = 429
\* the GET was answered with HTTP 200 and a body that parses
IsParsed200(o) ==
    o.stage = "response" /\ o.resp.StatusCode = 200 /\ o.body = "parsed"
\* the GET was answered with a status that is neither 200 nor 429
IsOtherStatus(o) == o.stage = "response" /\ o.resp.StatusCode \notin { 200, 429 }
\* the error of the GET carries a rate-limit marker
IsRateLimited(o) ==
    LET e == fetchAndParseHTML(o).err
    IN  StringsContains(e, <<"4", "2", "9">>) \/ StringsContains(e, <<"Too Many Requests">>)

\* the retry loop has returned for the item whose calls io holds
Returned == pc \in { "returned", "loop", "fatal", "done" } /\ io # <<>>

\* the item was rate-limited through all allowed attempts
RetriesExhausted(s) ==
    /\ Len(Fetches(s)) = 3
    /\ \A k \in 1 .. Len(s) : IsFetch(s[k]) => IsRateLimited(s[k].o)

Out429 ==
    [ stage |-> "response", detail |-> <<>>,
      resp |-> [ StatusCode |-> 429,
                 Status |-> <<"4", "2", "9", " ", "Too Many Requests">> ],
      body |-> "none", doc |-> NoDoc ]

\* k rate-limited GETs, each followed by its sleep, then the GET ending in o
RetriesThen(k, o) ==
    [ j \in 1 .. (2 * k + 1) |->
        IF j = 2 * k + 1 THEN Fetch(o)
        ELSE IF j % 2 = 1 THEN Fetch(Out429)
        ELSE Sleep(2000 * (j \div 2)) ]

\* C1: when every GET of an item is answered with HTTP 429, the retry loop
\* makes exactly 3 GETs and 2 sleeps, of 2000 ms after the first and 4000 ms
\* after the second, none after the third, and returns an error (the item
\* was rate-limited through all allowed attempts).
C1_ThreeRateLimitedAttempts ==
    (io # <<>> /\ \A k \in 1 .. Len(io) : IsFetch(io[k]) => Is429(io[k].o))
    => /\ IsPrefix(io, RetriesThen(2, Out429))
       /\ (io = RetriesThen(2, Out429)) <=> Returned
       /\ Returned => (err # NoError /\ RetriesExhausted(io))

C1_Witness ==
    /\ pc = "returned"
    /\ io = << Fetch(Out429), Sleep(2000), Fetch(Out429), Sleep(4000),
               Fetch(Out429) >>
    /\ err # NoError

\* C2: k = 1 or 2 GETs answered with 429 and then one answered with 200 and a
\* parsable body: the loop returns the record of that last page and no
\* error, after k+1 GETs and k sleeps of 2000*1 .. 2000*k ms.
C2_RetryThenSuccess ==
    \A k \in 1 .. 2 :
        LET f == Fetches(io)
        IN  ( /\ Len(f) = k + 1
              /\ \A j \in 1 .. k : Is429(f[j].o)
              /\ IsParsed200(f[k + 1].o) )
            => /\ io = RetriesThen(k, f[k + 1].o)
               /\ Returned
               /\ err = NoError
               /\ character = extractCharacterInfo(f[k + 1].o).character
               /\ (f[k + 1].o.doc = DocAbility => character.Leadership = 120)

C2_Witness ==
    /\ pc = "returned"
    /\ err = NoError
    /\ character.Leadership = 120
    /\ Len(io) = 3
    /\ IsFetch(io[1]) /\ Is429(io[1].o)
    /\ io[2] = Sleep(2000)
    /\ IsFetch(io[3]) /\ IsParsed200(io[3].o)

\* C3: an item rate-limited through all allowed attempts is returned with
\* the "maximum retries reached" error, which no single failed HTTP response
\* produces.
C3_ExhaustionIsDistinctError ==
    (Returned /\ RetriesExhausted(io))
    => /\ err = MaxRetriesError
       /\ \A r \in Responses : err # checkHTTPStatus(r)

\* C4 as stated: a response whose status is neither 200 nor 429, whatever its
\* status text, ends the retry loop in failure: no sleep and no GET follows.
C4_OtherStatusNeverRetried ==
    \A k \in 1 .. Len(io) :
        (IsFetch(io[k]) /\ IsOtherStatus(io[k].o))
        => (k = Len(io) /\ Returned /\ err # NoError)

\* C4 amended: a response whose status is neither 200 nor 429 and whose
\* status text holds no rate-limit marker ends the retry loop in failure at
\* that attempt: no sleep and no GET follows.
C4_UnmarkedStatusNeverRetried ==
    \A k \in 1 .. Len(io) :
        ( /\ IsFetch(io[k])
          /\ IsOtherStatus(io[k].o)
          /\ ~StringsContains(io[k].o.resp.Status, <<"4", "2", "9">>)
          /\ ~StringsContains(io[k].o.resp.Status, <<"Too Many Requests">>) )
        => (k = Len(io) /\ Returned /\ err # NoError)

C4_Witness ==
    /\ pc = "returned"
    /\ err # NoError
    /\ Len(io) = 5
    /\ IsOtherStatus(io[5].o)
    /\ io[5].o.resp.StatusCode = 404

\* the events of batchLog that end an item
Items(s) == SelectSeq(s, IsItem)

\* C5: the items attempted are the prefix of the list up to and including the
\* first one that ends in rate-limit exhaustion: items end in list order, an
\* item ends the batch exactly when it was rate-limited through all attempts,
\* nothing runs after that, and after any other failure the next item is
\* taken.
C5_AttemptedPrefix ==
    LET items == Items(batchLog)
    IN  /\ \A k \in 1 .. Len(items) : items[k].item = k - 1
        /\ \A k \in 1 .. Len(items) : items[k].op = "fatal" => k = Len(items)
        /\ (pc = "fatal") <=> (items # <<>> /\ items[Len(items)].op = "fatal")
        /\ pc = "fatal" => ~ENABLED Next
        /\ pc \in { "retry", "sleep", "returned" } => i = Len(items)
        /\ pc = "loop" => (i = Len(items) /\ (i < Len(urls) => ENABLED StartItem))
        /\ pc = "done" => Len(items) = Len(urls)
        /\ (Returned /\ pc # "returned")
           => /\ items # <<>>
              /\ (items[Len(items)].op = "fatal") <=> RetriesExhausted(io)
              /\ (items[Len(items)].op = "ok") <=> (err = NoError)

C5_Witness ==
    /\ pc = "fatal"
    /\ Len(urls) = 3
    /\ Len(Items(batchLog)) = 2
    /\ batchLog[1].op = "skipped"

\* C6: the inter-request delay of 500 ms is taken only right after a
\* successful item that is not the last of the list: never before the first
\* item, never after a failed item, never after the last item.
C6_DelayOnlyBetweenItems ==
    /\ \A k \in 1 .. Len(batchLog) :
          IsDelay(batchLog[k])
          => /\ k > 1
             /\ IsOk(batchLog[k - 1])
             /\ batchLog[k - 1].item = batchLog[k].item
             /\ batchLog[k].item < Len(urls) - 1
             /\ batchLog[k].d = 500
    /\ pc = "done" => (batchLog = <<>> \/ ~IsDelay(batchLog[Len(batchLog)]))
    /\ \A k \in 1 .. Len(batchLog) :
          (IsOk(batchLog[k]) /\ batchLog[k].item < Len(urls) - 1)
          => (k < Len(batchLog) /\ IsDelay(batchLog[k + 1]))

C6_Witness ==
    /\ pc = "done"
    /\ Len(urls) = 3
    /\ Len(batchLog) = 4
    /\ IsOk(batchLog[1]) /\ IsDelay(batchLog[2])
    /\ batchLog[3].op = "skipped" /\ IsOk(batchLog[4])

\* C7: whenever the retry loop holds or returns an error, the record with it
\* is the zero record, and the batch appends no record for a failed item.
C7_ZeroRecordOnError ==
    /\ err # NoError => character = ZeroCharacter
    /\ Len(characters) = Len(SelectSeq(batchLog, IsOk))
    /\ \A k \in 1 .. Len(characters) :
          characters[k] \in { extractCharacterInfo(o).character :
                                o \in { x \in FetchOutcomes : IsParsed200(x) } }

C7_Witness ==
    /\ pc = "loop"
    /\ err # NoError
    /\ character = ZeroCharacter
    /\ Len(batchLog) = 3
    /\ batchLog[3].op = "skipped"
    /\ Len(characters) = 1

(***************************************************************************)
(* One record filled from table rows: extractAbilitiesFromTable handing    *)
(* each row to processTableRow (main.go 477-489).  The elements of a row   *)
(* arrive one by one, in document order, as findAllNodes collects them;    *)
(* the record is the one extractBasicInfo created for the document.        *)
(***************************************************************************)
\* cell texts of rows of numbers: " 12", "0", "x", "95"
AbilityTexts == { <<" ", "1", "2">>, <<"0">>, <<"x">>, <<"9", "5">> }

\* cell texts of status rows: " reisei " (a personality, padded), "jushi"
\* (a fame), "kosen" (a strategy), "-", and "x" (in no vocabulary)
EnumTexts ==
    { <<" ", "reisei", " ">>, <<"jushi">>, <<"kosen">>, <<"-">>, <<"x">> }

InitRows ==
    /\ urls = <<>>
    /\ i = 0
    /\ pc = "row"
    /\ attempt = 0
    /\ character = ZeroCharacter
    /\ err = NoError
    /\ characters = <<>>
    /\ io = <<>>
    /\ batchLog = <<>>
    /\ row = <<>>
    /\ tables = <<>>

\* findAllNodes meets the next element of the row at hand, or the first one
\* of the next row
AppendNode(node) ==
    /\ pc \in { "row", "rowDone" }
    /\ row' = IF pc = "row" THEN Append(row, node) ELSE <<node>>
    /\ Len(row') <= MaxCells
    /\ pc' = "row"
    /\ UNCHANGED << tables, urls, i, attempt, character, err, characters,
                    io, batchLog >>

\* processTableRow(character, row, cells)
ProcessRow ==
    /\ pc = "row"
    /\ character' = processTableRow(character, row, findAllCells(row))
    /\ pc' = "rowDone"
    /\ UNCHANGED << tables, urls, i, attempt, err, characters, io,
                    batchLog, row >>

NextAbilities ==
    \/ \E t \in AbilityTexts : AppendNode(Td(t))
    \/ ProcessRow

SpecAbilities == InitRows /\ [][NextAbilities]_vars

NextEnums ==
    \/ \E t \in EnumTexts : AppendNode(Td(t))
    \/ ProcessRow

SpecEnums == InitRows /\ [][NextEnums]_vars

(***************************************************************************)
(* Properties of the row extractors                                        *)
(***************************************************************************)
Abilities(c) == << c.Leadership, c.Force, c.Intelligence, c.Politics, c.Charm >>

\* the td cells of the row at hand
RowCells == SelectSeq(row, IsTd)

\* the row has five cells or more, its first five are integers and the first
\* is positive
RowQualifies ==
    /\ Len(RowCells) >= 5
    /\ \A k \in 1 .. 5 : AtoiOk(TrimSpace(RowCells[k].text))
    /\ AtoiVal(TrimSpace(RowCells[1].text)) > 0

\* the integers of the row's first five cells
RowValues == [ k \in 1 .. 5 |-> AtoiVal(TrimSpace(RowCells[k].text)) ]

\* C8: after any rows the five ability fields are all zero or come, all five,
\* from one row whose first value is positive: they start at zero, and a step
\* that changes any of them sets all five from the row it handles.
C8_AbilitiesAllOrNothing ==
    /\ [](Abilities(character) = <<0, 0, 0, 0, 0>> \/ character.Leadership > 0)
    /\ [][ Abilities(character') # Abilities(character)
           => (RowQualifies /\ Abilities(character') = RowValues) ]_vars

C8_Witness ==
    /\ pc = "rowDone"
    /\ Len(RowCells) = 5
    /\ AtoiOk(TrimSpace(RowCells[1].text))
    /\ AtoiVal(TrimSpace(RowCells[1].text)) > 0
    /\ ~RowQualifies
    /\ Abilities(character) = <<95, 0, 12, 95, 12>>

\* C9: personality is empty or in the personality vocabulary, fame is empty
\* or in the fame vocabulary, strategy is empty, in the strategy vocabulary
\* or "-", whatever the rows hold.
C9_EnumFieldsInVocabulary ==
    /\ character.Personality \in PersonalityTypes \cup { <<>> }
    /\ character.Fame \in FameTypes \cup { <<>> }
    /\ character.Strategy \in StrategyTypes \cup { <<>>, <<"-">> }

C9_Witness ==
    /\ pc = "rowDone"
    /\ character.Personality = <<"reisei">>
    /\ character.Fame = <<"jushi">>
    /\ character.Strategy = <<"-">>
    /\ character.Greed = <<"x">>

\* C10: a row commits the five fields from its first five cells if and only
\* if it has five cells or more, the first five are integers and the first is
\* positive; any other row changes none of them.  So the last qualifying row
\* gives the final values.
C10_CommitIffQualifies ==
    /\ []((pc = "rowDone" /\ RowQualifies) => Abilities(character) = RowValues)
    /\ [][ (pc = "row" /\ pc' = "rowDone")
           => IF RowQualifies
              THEN Abilities(character') = RowValues
              ELSE Abilities(character') = Abilities(character) ]_vars

C10_Witness ==
    /\ pc = "rowDone"
    /\ RowQualifies
    /\ row[1].text = <<" ", "1", "2">>
    /\ Abilities(character) = <<12, 95, 0, 95, 12>>

(***************************************************************************)
(* Status rows: the same row loop over rows of fame, greed and strategy    *)
(* cells (main.go 544-593).                                                *)
(***************************************************************************)
\* cell texts of status rows: "jushi" (a fame), "kosen" (a strategy), "-",
\* "ー", " " (empty once trimmed) and "x" (in no vocabulary)
StatusTexts ==
    { <<"jushi">>, <<"kosen">>, <<"-">>, <<Choon>>, <<" ">>, <<"x">> }

NextStatus ==
    \/ \E t \in StatusTexts : AppendNode(Td(t))
    \/ ProcessRow

SpecStatus == InitRows /\ [][NextStatus]_vars

\* the trimmed text of cell k of the row at hand
RowText(k) == TrimSpace(RowCells[k].text)

\* the row passes the guards of extractStatusInfo: no status header keyword
\* in its text and three cells or more
RowIsData ==
    /\ Len(RowCells) >= 3
    /\ ~StringsContains(rowText(row), <<"jushi", "meisei">>)
    /\ ~StringsContains(rowText(row), <<"butsuyoku">>)
    /\ ~StringsContains(rowText(row), <<"senryakukeiko">>)

\* the cells of the row at hand that hold a fame word
FameAt == { j \in 1 .. Len(RowCells) : RowText(j) \in FameTypes }

\* fame is found in the row at hand
FameFound == RowIsData /\ FameAt # {}

\* the index of the row's fame cell (1-based: the code's j is FameIndex - 1)
FameIndex == MinOf(FameAt)

\* cell k exists and holds a strategy word or "-"
IsStrategyCell(k) ==
    /\ k <= Len(RowCells)
    /\ RowText(k) \in StrategyTypes \cup { <<"-">> }

\* C11: with the fame cell at index j, only cells j+2 and j+3 are examined,
\* in that order: the first of the two that holds a strategy word or "-" is
\* stored as strategy; an empty cell, "ー" or any other text is passed over;
\* when neither of the two qualifies, and in a row without fame, strategy is
\* left as it was, whatever the cells from j+4 on hold.
C11_StrategyFromTwoCells ==
    [][ (pc = "row" /\ pc' = "rowDone")
        => character'.Strategy =
             IF FameFound /\ IsStrategyCell(FameIndex + 2)
             THEN RowText(FameIndex + 2)
             ELSE IF FameFound /\ IsStrategyCell(FameIndex + 3)
             THEN RowText(FameIndex + 3)
             ELSE character.Strategy ]_vars

\* the row [fame, greed, "ー", "kosen", "-"]: strategy is "kosen"
C11_Witness ==
    /\ pc = "rowDone"
    /\ Len(row) = 5
    /\ RowText(1) = <<"jushi">>
    /\ RowText(2) = <<"x">>
    /\ RowText(3) = <<Choon>>
    /\ RowText(4) = <<"kosen">>
    /\ RowText(5) = <<"-">>
    /\ character.Strategy = <<"kosen">>

\* the texts extractGreed does not store: "", "-" and "ー"
GreedSuppressed == { <<>>, <<"-">>, <<Choon>> }

\* a cell follows the fame cell of the row at hand
GreedCellFound == FameFound /\ FameIndex + 1 <= Len(RowCells)

\* C12 as stated: once a row with fame has been handled, greed is the text of
\* the cell after the fame cell, and it is empty when that text is "", "-"
\* or "ー".
C12_GreedEmptyWhenSuppressed ==
    (pc = "rowDone" /\ GreedCellFound)
    => character.Greed =
         IF RowText(FameIndex + 1) \in GreedSuppressed THEN <<>>
         ELSE RowText(FameIndex + 1)

\* C12 amended: a row with fame stores the trimmed text of the cell after the
\* fame cell as greed unless that text is "", "-" or "ー"; for these three
\* the row leaves greed as it was, which is empty when no earlier row has set
\* it.  Greed is never "-" or "ー".
C12_GreedKeptWhenSuppressed ==
    /\ [](character.Greed \notin { <<"-">>, <<Choon>> })
    /\ [][ (pc = "row" /\ pc' = "rowDone")
           => character'.Greed =
                IF GreedCellFound /\ RowText(FameIndex + 1) \notin GreedSuppressed
                THEN RowText(FameIndex + 1)
                ELSE character.Greed ]_vars

\* a row with "ー" after its fame cell, handled after a row that set greed
C12_Witness ==
    /\ pc = "rowDone"
    /\ GreedCellFound
    /\ RowText(FameIndex + 1) = <<Choon>>
    /\ character.Greed = <<"x">>

(***************************************************************************)
(* One document parsed into a record: extractCharacterInfo after a GET     *)
(* that was answered with the document (main.go 337-349).  The tables of   *)
(* the document arrive one by one, in document order.                      *)
(***************************************************************************)
InitDoc ==
    /\ urls = <<>>
    /\ i = 0
    /\ pc = "doc"
    /\ attempt = 0
    /\ character = ZeroCharacter
    /\ err = NoError
    /\ characters = <<>>
    /\ io = <<>>
    /\ batchLog = <<>>
    /\ row = <<>>
    /\ tables = <<>>

\* the document at hand: the text of its first strong element is the text of
\* the nodes in row
Document == [ strong |-> rowText(row), tables |-> tables ]

\* the GET that is answered with HTTP 200 and the document
Parsed(doc) ==
    [ stage |-> "response", detail |-> <<>>, resp |-> Response(200, <<"OK">>),
      body |-> "parsed", doc |-> doc ]

\* findAllNodes(doc, "table") meets the next table
AppendTable(table) ==
    /\ pc = "doc"
    /\ Len(tables) < MaxTables
    /\ tables' = Append(tables, table)
    /\ UNCHANGED << urls, i, pc, attempt, character, err, characters, io,
                    batchLog, row >>

\* extractCharacterInfo(url) on the document
ExtractCharacterInfo ==
    /\ pc = "doc"
    /\ character' = extractCharacterInfo(Parsed(Document)).character
    /\ pc' = "parsed"
    /\ UNCHANGED << tables, urls, i, attempt, err, characters, io, batchLog,
                    row >>

\* a td cell with a style attribute
TdStyle(t, style) == [ tag |-> "td", text |-> t, style |-> style ]
\* style="width:60px" and the like
Width(w) == << "width:", w >>

\* tables of interest cells: the header 興味 and the items of one record; an
\* item in a cell without style; an item again, 52px wide; a text outside
\* the vocabulary and an item; an item in a cell 60px high; an item in a cell
\* whose style names a colour and a width
InterestTables ==
    { << << TdStyle(<<"kyomi">>, Width("60px")),
            TdStyle(<<" ", "bugu", " ">>, Width("60px")),
            TdStyle(<<Choon>>, Width("53px")),
            TdStyle(<<"shomotsu">>, Width("50px")),
            TdStyle(<<"-">>, Width("60px")) >> >>,
      << << Td(<<"bugu">>) >> >>,
      << << TdStyle(<<"bugu">>, Width("52px")) >> >>,
      << << TdStyle(<<"x">>, Width("60px")) >>,
         << TdStyle(<<"sake">>, Width("51px")) >> >>,
      << << TdStyle(<<"meiba">>, << "height:", "60px" >>) >> >>,
      << << TdStyle(<<"meiba">>, << "color:", "red", ";", "width:", "50px" >>) >> >> }

NextInterests ==
    \/ \E t \in InterestTables : AppendTable(t)
    \/ ExtractCharacterInfo

SpecInterests == InitDoc /\ [][NextInterests]_vars

\* all td cells of the document at hand, in document order
DocCells == allCells(tables)

\* the cell's style gives it one of the five interest widths, and its trimmed
\* text is an interest item and none of "ー", "", 興味, "-"
IsKeptInterest(cell) ==
    /\ \E w \in { "60px", "53px", "52px", "51px", "50px" } :
          StringsContains(cell.style, << "width:", w >>)
    /\ TrimSpace(cell.text) \in InterestItems
    /\ TrimSpace(cell.text) \notin { <<Choon>>, <<>>, <<"kyomi">>, <<"-">> }

\* the trimmed texts of the kept cells, in document order
KeptInterests ==
    LET kept == SelectSeq(DocCells, IsKeptInterest)
    IN  [ k \in 1 .. Len(kept) |-> TrimSpace(kept[k].text) ]

\* C13: the interests of a parsed document are exactly the trimmed texts of
\* its cells, from every table, that carry one of the five interest widths
\* and hold an interest item outside the exclusion set, in document order
\* with duplicates kept, joined with ", ".  The cells 興味, 武具, "ー", 書物,
\* "-" give 武具, 書物.
C13_InterestsAreKeptCells ==
    pc = "parsed"
    => /\ interestsOf(DocCells) = KeptInterests
       /\ character.Interest = stringsJoin(KeptInterests)
       /\ ( [ k \in 1 .. Len(DocCells) |-> TrimSpace(DocCells[k].text) ]
               = << <<"kyomi">>, <<"bugu">>, <<Choon>>, <<"shomotsu">>, <<"-">> >>
             => KeptInterests = << <<"bugu">>, <<"shomotsu">> >> )

\* 武具 from a cell 52px wide, then the cells of the example: 武具 twice
C13_Witness ==
    /\ pc = "parsed"
    /\ Len(tables) = 2
    /\ Len(DocCells) = 6
    /\ character.Interest =
         << "bugu", ",", " ", "bugu", ",", " ", "shomotsu" >>

(***************************************************************************)
(* The name line: the text nodes of the first strong element arrive one by *)
(* one and the document, which has no table, is parsed by main.go or by    *)
(* the older variant.                                                      *)
(***************************************************************************)
TextNode(c) == [ tag |-> "#text", text |-> <<c>>, style |-> NoStyle ]

\* a letter, a blank and the two parentheses
NameSymbols == { "S", " ", "(", ")" }

\* getNodeText meets the next text node below the strong element
AppendText(c) ==
    /\ pc = "doc"
    /\ Len(row) < MaxText
    /\ row' = Append(row, TextNode(c))
    /\ UNCHANGED << tables, urls, i, pc, attempt, character, err, characters,
                    io, batchLog >>

\* the older variant on a document without tables: extractNameAndReading
\* fills the new record and the other extractors find nothing
ExtractCharacterInfoSplit ==
    /\ pc = "doc"
    /\ character' = extractNameAndReadingSplit(ZeroCharacter, Document)
    /\ pc' = "parsedSplit"
    /\ UNCHANGED << tables, urls, i, attempt, err, characters, io, batchLog,
                    row >>

NextNames ==
    \/ \E c \in NameSymbols : AppendText(c)
    \/ ExtractCharacterInfo
    \/ ExtractCharacterInfoSplit

SpecNames == InitDoc /\ [][NextNames]_vars

\* the text of the first strong element
StrongText == rowText(row)

\* the places of "(" in the text, and of ")" after the first "("
OpenAt == { k \in 1 .. Len(StrongText) : StrongText[k] = "(" }
CloseAt == { k \in 1 .. Len(StrongText) :
               OpenAt # {} /\ k > MinOf(OpenAt) /\ StrongText[k] = ")" }

\* name and reading are as the name line describes them: with a "(" and a
\* ")" after it, name is the trimmed text left of the first "(" and reading
\* the trimmed text between that "(" and the first ")" after it; without
\* such a pair both are empty
NameAndReadingAsDescribed ==
    IF OpenAt # {} /\ CloseAt # {}
    THEN /\ character.Name =
              TrimSpace(SubSeq(StrongText, 1, MinOf(OpenAt) - 1))
         /\ character.Reading =
              TrimSpace(SubSeq(StrongText, MinOf(OpenAt) + 1,
                               MinOf(CloseAt) - 1))
    ELSE character.Name = <<>> /\ character.Reading = <<>>

\* C14 as stated: name and reading are as described for every text, after
\* main.go's cut-based variant and after the older split-based variant.
C14_NameAndReadingBothVariants ==
    pc \in { "parsed", "parsedSplit" } => NameAndReadingAsDescribed

\* the text has no "(" or no ")" at all, or its first "(" is followed by a
\* ")" with no second "(" in between
SplitAgrees ==
    \/ OpenAt = {}
    \/ \A k \in 1 .. Len(StrongText) : StrongText[k] # ")"
    \/ /\ CloseAt # {}
       /\ \A k \in OpenAt : k = MinOf(OpenAt) \/ k > MinOf(CloseAt)

\* C14 amended: name and reading are as described for every text after the
\* cut-based variant; after the split-based variant they are so exactly for
\* the texts that have no "(" or no ")" at all or whose first "(" is followed
\* by a ")" with no second "(" in between.
C14_NameAndReadingCutVariant ==
    /\ pc = "parsed" => NameAndReadingAsDescribed
    /\ pc = "parsedSplit" => (NameAndReadingAsDescribed <=> SplitAgrees)

\* the text "S (S)" after the cut-based variant
C14_Witness ==
    /\ pc = "parsed"
    /\ StrongText = << "S", " ", "(", "S", ")" >>
    /\ character.Name = <<"S">>
    /\ character.Reading = <<"S">>

(***************************************************************************)
(* Documents of tactics and skills tables (main.go 641-676).               *)
(***************************************************************************)
\* 火計 "kakei", 突撃 "totsugeki", 開発 "kaihatsu", 主宰 "shusai".  A tactics
\* table with a category, an item and an item with a note in parentheses; a
\* tactics table with the first item again and a cell of another width; two
\* skills tables; a table without header; a table with both headers
SkillTables ==
    { << << Th(<<"senpo">>) >>,
         << TdStyle(<<"hohei">>, Width("70px")),
            TdStyle(<<"kakei">>, Width("70px")),
            TdStyle(<<" ", "totsugeki", "(", "+", "1", ")">>, Width("70px")) >> >>,
      << << Th(<<"senpo">>) >>,
         << TdStyle(<<"kakei">>, Width("70px")), Td(<<"x">>) >> >>,
      << << Th(<<"tokugi">>) >>,
         << TdStyle(<<"ninmu">>, Width("70px")),
            TdStyle(<<"kaihatsu">>, Width("70px")) >> >>,
      << << Th(<<"tokugi">>) >>,
         << TdStyle(<<"shusai">>, Width("70px")) >> >>,
      << << TdStyle(<<"kakei">>, Width("70px")) >> >>,
      << << Th(<<"senpo">>), Th(<<"tokugi">>) >>,
         << TdStyle(<<"ninmu">>, Width("70px")) >> >> }

NextSkills ==
    \/ \E t \in SkillTables : AppendTable(t)
    \/ ExtractCharacterInfo

SpecSkills == InitDoc /\ [][NextSkills]_vars

\* the table is classified as tactics; as skills
IsTacticsTable(table) == StringsContains(tableText(table), <<"senpo">>)
IsSkillsTable(table) ==
    ~IsTacticsTable(table) /\ StringsContains(tableText(table), <<"tokugi">>)

\* the kept items of every tactics table of ts, appended in document order
RECURSIVE AllTactics(_)
AllTactics(ts) ==
    IF ts = <<>> THEN <<>>
    ELSE (IF IsTacticsTable(Head(ts))
          THEN extractFromSkillTable(Head(ts), TacticCategories)
          ELSE <<>>) \o AllTactics(Tail(ts))

\* the kept items of every skills table of ts, appended in document order
RECURSIVE AllSkills(_)
AllSkills(ts) ==
    IF ts = <<>> THEN <<>>
    ELSE (IF IsSkillsTable(Head(ts))
          THEN extractFromSkillTable(Head(ts), SkillCategories)
          ELSE <<>>) \o AllSkills(Tail(ts))

\* C15: the tactics of a parsed document are the kept items of all its
\* tactics tables, appended in document order with duplicates kept and
\* joined with ", "; its skills are those of all its skills tables.
C15_ItemsOfEveryTable ==
    pc = "parsed"
    => /\ character.Tactics = stringsJoin(AllTactics(tables))
       /\ character.Skills = stringsJoin(AllSkills(tables))

(***************************************************************************)
(* Documents of talent tables (main.go 427-451, 595-619).                  *)
(***************************************************************************)
Gold == << "background-color:", "gold" >>

\* 神算 "shinsan", 王佐 "oza", 覇王 "hao".  A talent table; two basic-info
\* tables that hold a talent; a table with a gold cell and no keyword; a
\* talent table whose first gold cell is blank; a table with 奇才 but
\* without 効果
TalentTables ==
    { << << Th(<<"kisai">>), Th(<<"koka">>) >>,
         << TdStyle(<<" ", "shinsan", " ">>, Gold), Td(<<"x">>) >> >>,
      << << Th(<<"azana">>), Th(<<"botsunen">>), Th(<<"kisai">>), Th(<<"koka">>) >>,
         << Td(<<"x">>), TdStyle(<<"oza">>, Gold) >> >>,
      << << Th(<<"azana">>), Th(<<"botsunen">>), Th(<<"kisai">>), Th(<<"koka">>) >>,
         << TdStyle(<<"hao">>, Gold) >> >>,
      << << TdStyle(<<"x">>, Gold) >> >>,
      << << Th(<<"kisai">>), Th(<<"koka">>) >>,
         << TdStyle(<<" ">>, Gold), TdStyle(<<"y">>, Gold) >> >>,
      << << Th(<<"kisai">>) >>,
         << TdStyle(<<"z">>, Gold) >> >> }

NextTalent ==
    \/ \E t \in TalentTables : AppendTable(t)
    \/ ExtractCharacterInfo

SpecTalent == InitDoc /\ [][NextTalent]_vars

\* the trimmed texts of the gold cells of a table, in document order
GoldTexts(table) ==
    LET IsGold(cell) == StringsContains(cell.style, Gold)
        cells == SelectSeq(tableCells(table), IsGold)
    IN  [ k \in 1 .. Len(cells) |-> TrimSpace(cells[k].text) ]

\* the first of the texts that is not empty
FirstNonEmpty(texts) == texts[MinOf({ k \in 1 .. Len(texts) : texts[k] # <<>> })]

\* the pass over the classified tables leaves talent empty
ClassifiedPassEmpty == classifiedTables(ZeroCharacter, tables).Talent = <<>>

\* the tables that have a gold cell with a text
WithGoldText ==
    { k \in 1 .. Len(tables) : \E j \in 1 .. Len(GoldTexts(tables[k])) :
                                  GoldTexts(tables[k])[j] # <<>> }

TalentYielding ==
    { k \in 1 .. Len(tables) :
        /\ StringsContains(tableText(tables[k]), <<"kisai">>)
        /\ StringsContains(tableText(tables[k]), <<"koka">>)
        /\ GoldTexts(tables[k]) # <<>>
        /\ GoldTexts(tables[k])[1] # <<>> }

BasicInfoHeaderRow == << Th(<<"azana">>), Th(<<"botsunen">>) >>

\* nine cells whose second is azana and whose seventh is year
BasicRow(azana, year) ==
    << Td(<<"x">>), Td(azana), Td(<<"x">>), Td(<<"x">>), Td(<<"x">>),
       Td(<<"x">>), Td(year), Td(<<"x">>), Td(<<"x">>) >>

\* 孔明 "komei" who died in 234; a row whose year is 不明 "fumei"; a row of
\* eight cells; a row that starts with a th and has a tenth cell, year 13
BasicRows ==
    { BasicRow(<<" ", "komei", " ">>, <<" ", "2", "3", "4", " ">>),
      BasicRow(<<"b">>, <<"fumei">>),
      SubSeq(BasicRow(<<"s">>, <<"1">>), 1, 8),
      <<Th(<<"x">>)>> \o BasicRow(<<"d">>, <<"1", "3">>) \o <<Td(<<"x">>)>> }

\* the rows of the document that are no header rows
RECURSIVE DataRows(_)
DataRows(ts) ==
    IF ts = <<>> THEN 0 ELSE Len(Head(ts)) - 1 + DataRows(Tail(ts))

\* findAllNodes(table, "tr") meets the next row of the last table
AppendRow(r) ==
    /\ pc = "doc"
    /\ tables # <<>>
    /\ DataRows(tables) < MaxRows
    /\ tables' = [ tables EXCEPT ![Len(tables)] = Append(@, r) ]
    /\ UNCHANGED << urls, i, pc, attempt, character, err, characters, io,
                    batchLog, row >>

NextBasicInfo ==
    \/ AppendTable(<< BasicInfoHeaderRow >>)
    \/ \E r \in BasicRows : AppendRow(r)
    \/ ExtractCharacterInfo

SpecBasicInfo == InitDoc /\ [][NextBasicInfo]_vars

\* the largest member of a non-empty set of indices
MaxOf(S) == CHOOSE j \in S : \A k \in S : j >= k

\* the td cells of the first row of the table that has nine cells or more
FirstNineCells(table) ==
    LET rows == { k \in 1 .. Len(table) : Len(SelectSeq(table[k], IsTd)) >= 9 }
    IN  IF rows = {} THEN <<>> ELSE SelectSeq(table[MinOf(rows)], IsTd)

\* the tables that have such a row (every table here is a basic-info table)
WithNineCells == { k \in 1 .. Len(tables) : FirstNineCells(tables[k]) # <<>> }

\* the trimmed text of cell 1 (azana) and of cell 6 (death year) of that row
AzanaText(table) == TrimSpace(FirstNineCells(table)[2].text)
YearText(table) == TrimSpace(FirstNineCells(table)[7].text)

\* the year text is an integer: an optional sign and digits
IsInteger(s) ==
    LET d == IF s # <<>> /\ s[1] \in { "+", "-" } THEN Tail(s) ELSE s
    IN  d # <<>> /\ \A k \in 1 .. Len(d) : d[k] \in Digits

\* the derived year is 0 with an unset death year, or death year minus 13
DerivedYearOk ==
    \/ character.DeathMinus13 = 0 /\ character.DeathYear = 0
    \/ character.DeathMinus13 = character.DeathYear - 13

\* C17 as stated: the record holds, of the table handled last, cell 1 of the
\* first row with nine cells or more as azana and its cell 6 as death year,
\* and death year is zero when that cell is no integer; the derived year is
\* 0 with an unset death year, or death year minus 13.
C17_FirstNineCellRowOrZero ==
    pc = "parsed"
    => /\ WithNineCells # {}
          => LET table == tables[MaxOf(WithNineCells)]
             IN  /\ character.Azana = AzanaText(table)
                 /\ character.DeathYear =
                      IF IsInteger(YearText(table)) THEN AtoiVal(YearText(table))
                      ELSE 0
       /\ WithNineCells = {} => character.Azana = <<>> /\ character.DeathYear = 0
       /\ DerivedYearOk

\* the tables whose first row with nine cells or more has an integer in
\* cell 6
WithYear == { k \in WithNineCells : IsInteger(YearText(tables[k])) }

\* C17 amended: of each table only the first row with nine cells or more is
\* used; its cell 1 becomes azana and its cell 6, when an integer, death
\* year; a cell 6 that is no integer leaves death year as it was, which is
\* zero unless an earlier table of the document gave one.  The derived year
\* is 0 with an unset death year, or death year minus 13.
C17_FirstNineCellRowOrKept ==
    pc = "parsed"
    => /\ character.Azana =
            IF WithNineCells = {} THEN <<>>
            ELSE AzanaText(tables[MaxOf(WithNineCells)])
       /\ character.DeathYear =
            IF WithYear = {} THEN 0
            ELSE AtoiVal(YearText(tables[MaxOf(WithYear)]))
       /\ DerivedYearOk

\* one table: a row of eight cells, a row of nine whose year is no integer,
\* then the row of 孔明: azana is "b" and death year stays zero
C17_Witness ==
    /\ pc = "parsed"
    /\ Len(tables) = 1
    /\ Len(tables[1]) = 4
    /\ Len(SelectSeq(tables[1][2], IsTd)) = 8
    /\ Len(tables[1][3]) = 9
    /\ tables[1][3][7].text = <<"fumei">>
    /\ Len(tables[1][4]) = 9
    /\ tables[1][4][7].text = << " ", "2", "3", "4", " " >>
    /\ character.Azana = <<"b">>
    /\ character.DeathYear = 0
    /\ character.DeathMinus13 = 0

(***************************************************************************)
(* The batch with its calls returning: a GET ends, with a response or at   *)
(* the client's timeout (main.go 62, 352), and time.Sleep returns.         *)
(***************************************************************************)
LiveSpec == Spec /\ WF_vars(Attempt) /\ WF_vars(Backoff)

\* the GET ended in an error without rate-limit marker
FailedUnmarked(o) == fetchAndParseHTML(o).err # NoError /\ ~IsRateLimited(o)

\* the GET ended in a document
Succeeded(o) == fetchAndParseHTML(o).err = NoError

\* C18: whatever the GETs of an item end in, the retry loop returns, after at
\* most 3 GETs and at most 2 sleeps, and a GET that succeeded or failed
\* without rate-limit marker is the last call made for the item.
C18_RetryLoopTerminates ==
    /\ [](Len(Fetches(io)) <= 3 /\ Len(Sleeps(io)) <= 2)
    /\ [](\A k \in 1 .. Len(io) :
            (IsFetch(io[k]) /\ (Succeeded(io[k].o) \/ FailedUnmarked(io[k].o)))
            => (k = Len(io) /\ pc \notin { "retry", "sleep" }))
    /\ ((pc = "retry") ~> (pc = "returned"))

\* two rate-limited GETs, each slept on, and a third that succeeds; the
\* record is in the result and the next item is due
C18_Witness ==
    /\ pc = "loop"
    /\ Len(Fetches(io)) = 3
    /\ Len(Sleeps(io)) = 2
    /\ Succeeded(io[Len(io)].o)
    /\ Len(characters) = 1

\* C19: the batch stops at an item only when that item had 3 GETs and each
\* ended in an error with a rate-limit marker; an item whose last GET failed
\* without marker, also after rate-limited ones, is skipped and the batch
\* goes on.
C19_AbortOnlyAfterThreeRateLimits ==
    LET items == Items(batchLog)
        f == Fetches(io)
    IN  /\ (pc = "fatal" \/ (items # <<>> /\ items[Len(items)].op = "fatal"))
           => /\ Len(f) = 3
              /\ \A k \in 1 .. 3 :
                    /\ fetchAndParseHTML(f[k].o).err # NoError
                    /\ IsRateLimited(f[k].o)
        /\ (Returned /\ pc # "returned" /\ FailedUnmarked(f[Len(f)].o))
           => /\ items[Len(items)].op = "skipped"
              /\ pc \in { "loop", "done" }
              /\ i = Len(items)

\* two rate-limited GETs and a third answered 404: the item is skipped
C19_Witness ==
    /\ pc = "loop"
    /\ Len(io) = 5
    /\ IsRateLimited(io[1].o)
    /\ IsRateLimited(io[3].o)
    /\ FailedUnmarked(io[5].o)
    /\ Items(batchLog)[Len(Items(batchLog))].op = "skipped"
    /\ i < Len(urls)

====
